---- MODULE Spec2Model ----
(***************************************************************************)
(* The album registry of the gin tutorial service: the package-level      *)
(* slice `albums` and the six handlers over it (the CRUD variant,          *)
(* src/unnamed/part_000; src/main.go carries the list / get / create       *)
(* subset with the same code).                                             *)
(*                                                                         *)
(* Spec     : one request at a time, each handler one step.                *)
(* SpecConc : NProcs handlers running concurrently on the shared slice,    *)
(*            one step per slice-header read, element read/write or        *)
(*            header store, as the unsynchronised Go code executes them.   *)
(***************************************************************************)
EXTENDS Integers, Sequences, FiniteSets, TLC

VARIABLES
    albums,   \* Spec: the package-level slice, as the sequence of its elements
    req,      \* Spec: the request served last
    resp,     \* Spec: what its handler wrote
    nreq,     \* Spec: requests served so far
    hdr,      \* SpecConc: the slice header of `albums` (array, len, cap)
    heap,     \* SpecConc: the backing arrays allocated so far
    pc,       \* SpecConc: where each handler goroutine stands
    loc       \* SpecConc: each handler's locals

seqvars == <<albums, req, resp, nreq>>
concvars == <<hdr, heap, pc, loc>>
vars == <<albums, req, resp, nreq, hdr, heap, pc, loc>>

\* ------------------------------------------------------------------ bounds

\* number of requests served in one behaviour of Spec
MaxReqs == 4

\* number of handlers running concurrently in SpecConc, one request each
NProcs == 2

\* ------------------------------------------------------------- data model

\* type album struct: the zero value of `var newAlbum album`
ZeroAlbum == [ID |-> "", Title |-> "", Artist |-> "", Price |-> 0]

\* var albums = []album{...}; prices in cents
Seed ==
    << [ID |-> "1", Title |-> "Blue Train", Artist |-> "John Coltrane", Price |-> 5699],
       [ID |-> "2", Title |-> "Jeru", Artist |-> "Gerry Mulligan", Price |-> 1799],
       [ID |-> "3", Title |-> "Sarah Vaughan and Clifford Brown",
        Artist |-> "Sarah Vaughan", Price |-> 3999] >>

\* http.StatusOK, http.StatusCreated, http.StatusNotFound
StatusOK == 200
StatusCreated == 201
StatusNotFound == 404

\* ------------------------------------------------------- request payloads

\* values of c.Param("id")
PathIds == {"1", "3", "4"}

\* A JSON request body: the set of keys present and their values, or a
\* body the decoder rejects.
Payload(keys, id, title, artist, price) ==
    [ok |-> TRUE, keys |-> keys, id |-> id, title |-> title,
     artist |-> artist, price |-> price]

Malformed == [ok |-> FALSE, keys |-> {}, id |-> "", title |-> "", artist |-> "", price |-> 0]

Payloads ==
    { Payload({"id", "title", "artist", "price"}, "4", "Kind of Blue", "Miles Davis", 1999),
      Payload({"id", "title", "price"}, "1", "Giant Steps", "", 0),
      Payload({"artist"}, "", "", "Stan Getz", 0),
      Payload({"id", "price"}, "3", "", "", -500),
      Malformed }

\* c.BindJSON(&a) on a zero album: a key that is present sets its field,
\* an absent key leaves the zero value.
BindJSON(p) ==
    [ID     |-> IF "id" \in p.keys THEN p.id ELSE ZeroAlbum.ID,
     Title  |-> IF "title" \in p.keys THEN p.title ELSE ZeroAlbum.Title,
     Artist |-> IF "artist" \in p.keys THEN p.artist ELSE ZeroAlbum.Artist,
     Price  |-> IF "price" \in p.keys THEN p.price ELSE ZeroAlbum.Price]

\* variant: the error of c.BindJSON is not looked at
BindFails_Ignored(p) == FALSE

\* err != nil of c.BindJSON
BindFails(p) == ~p.ok

\* -------------------------------------------------------------- responses

NoBody == [kind |-> "none", album |-> ZeroAlbum, list |-> <<>>, message |-> ""]

\* c.IndentedJSON(status, a) for an album
AlbumJSON(status, a) ==
    [status |-> status, body |-> [NoBody EXCEPT !.kind = "album", !.album = a]]

\* c.IndentedJSON(status, albums)
ListJSON(status, s) ==
    [status |-> status, body |-> [NoBody EXCEPT !.kind = "list", !.list = s]]

\* c.IndentedJSON(status, gin.H{"message": m})
MessageJSON(status, m) ==
    [status |-> status, body |-> [NoBody EXCEPT !.kind = "message", !.message = m]]

NotFound == MessageJSON(StatusNotFound, "album not found")
Deleted == MessageJSON(StatusOK, "album deleted")

\* the handler returned without calling c.IndentedJSON
NoResponse == [status |-> 0, body |-> NoBody]

\* ------------------------------------------------- the scan of the handlers

\* for i, a := range s { if a.ID == id { ... return } }: the index at which
\* the loop body returns, 0 when the loop runs to its end
RECURSIVE Scan(_, _, _)
Scan(s, id, i) ==
    IF i > Len(s) THEN 0
    ELSE IF s[i].ID = id THEN i
    ELSE Scan(s, id, i + 1)

\* ---------------------------------- the handlers as functions of the slice
\* each gives the slice and the response the handler leaves behind

Result(s, r) == [albums |-> s, resp |-> r]

List(s) == Result(s, ListJSON(StatusOK, s))

\* variant: the loop keeps the last match instead of returning at the first
GetByID_LastMatch(s, id) ==
    LET M == {i \in 1 .. Len(s) : s[i].ID = id}
    IN  IF M # {} THEN Result(s, AlbumJSON(StatusOK, s[CHOOSE i \in M : \A j \in M : j <= i]))
        ELSE Result(s, NotFound)

GetByID(s, id) ==
    LET i == Scan(s, id, 1)
    IN  IF i # 0 THEN Result(s, AlbumJSON(StatusOK, s[i]))
        ELSE Result(s, NotFound)

\* variant: append([]album{newAlbum}, albums...)
Create_Front(s, p) ==
    IF BindFails(p) THEN Result(s, NoResponse)
    ELSE Result(<<BindJSON(p)>> \o s, AlbumJSON(StatusCreated, BindJSON(p)))

\* variant: a record whose id is stored already takes the place of the old one
Create_Upsert(s, p) ==
    IF BindFails(p) THEN Result(s, NoResponse)
    ELSE IF Scan(s, BindJSON(p).ID, 1) # 0
    THEN Result([s EXCEPT ![Scan(s, BindJSON(p).ID, 1)] = BindJSON(p)],
                AlbumJSON(StatusCreated, BindJSON(p)))
    ELSE Result(Append(s, BindJSON(p)), AlbumJSON(StatusCreated, BindJSON(p)))

Create(s, p) ==
    IF BindFails(p) THEN Result(s, NoResponse)
    ELSE LET newAlbum == BindJSON(p)
         IN  Result(Append(s, newAlbum), AlbumJSON(StatusCreated, newAlbum))

\* variant: the price is stored without the `!= 0` test
PartialUpdate_AlwaysPrice(s, id, p) ==
    IF BindFails(p) THEN Result(s, NoResponse)
    ELSE LET b == BindJSON(p)
             i == Scan(s, id, 1)
         IN  IF i # 0
             THEN Result([s EXCEPT ![i] =
                             [ID |-> s[i].ID,
                              Title |-> IF b.Title # "" THEN b.Title ELSE s[i].Title,
                              Artist |-> IF b.Artist # "" THEN b.Artist ELSE s[i].Artist,
                              Price |-> b.Price]],
                         AlbumJSON(StatusOK, b))
             ELSE Result(s, NotFound)

PartialUpdate(s, id, p) ==
    IF BindFails(p) THEN Result(s, NoResponse)
    ELSE LET updatedAlbum == BindJSON(p)
             i == Scan(s, id, 1)
             t == IF updatedAlbum.Title # "" THEN updatedAlbum.Title ELSE s[i].Title
             a == IF updatedAlbum.Artist # "" THEN updatedAlbum.Artist ELSE s[i].Artist
             pr == IF updatedAlbum.Price # 0 THEN updatedAlbum.Price ELSE s[i].Price
         IN  IF i # 0
             THEN Result([s EXCEPT ![i] = [ID |-> s[i].ID, Title |-> t,
                                           Artist |-> a, Price |-> pr]],
                         AlbumJSON(StatusOK, updatedAlbum))
             ELSE Result(s, NotFound)

\* variant: a missing id is created instead of reported
Replace_Upsert(s, id, p) ==
    IF BindFails(p) THEN Result(s, NoResponse)
    ELSE IF Scan(s, id, 1) # 0
    THEN Result([s EXCEPT ![Scan(s, id, 1)] = BindJSON(p)], AlbumJSON(StatusOK, BindJSON(p)))
    ELSE Result(Append(s, BindJSON(p)), AlbumJSON(StatusOK, BindJSON(p)))

\* variant: the stored record keeps the path id
Replace_KeepsPathId(s, id, p) ==
    IF BindFails(p) THEN Result(s, NoResponse)
    ELSE IF Scan(s, id, 1) # 0
    THEN Result([s EXCEPT ![Scan(s, id, 1)] = [BindJSON(p) EXCEPT !.ID = id]],
                AlbumJSON(StatusOK, BindJSON(p)))
    ELSE Result(s, NotFound)

Replace(s, id, p) ==
    IF BindFails(p) THEN Result(s, NoResponse)
    ELSE LET updatedAlbum == BindJSON(p)
             i == Scan(s, id, 1)
         IN  IF i # 0
             THEN Result([s EXCEPT ![i] = updatedAlbum], AlbumJSON(StatusOK, updatedAlbum))
             ELSE Result(s, NotFound)

\* variant: every record with the id is removed
Delete_AllMatches(s, id) ==
    IF Scan(s, id, 1) # 0
    THEN Result(SelectSeq(s, LAMBDA a : a.ID # id), Deleted)
    ELSE Result(s, NotFound)

\* albums = append(albums[:i], albums[i+1:]...)
Delete(s, id) ==
    LET i == Scan(s, id, 1)
    IN  IF i # 0
        THEN Result(SubSeq(s, 1, i - 1) \o SubSeq(s, i + 1, Len(s)), Deleted)
        ELSE Result(s, NotFound)

\* ------------------------------------------- Spec: one request at a time

Request(op, id, p) == [op |-> op, id |-> id, payload |-> p]

NoRequest == Request("none", "", Malformed)

Serve(r, q) ==
    /\ nreq < MaxReqs
    /\ nreq' = nreq + 1
    /\ req' = q
    /\ albums' = r.albums
    /\ resp' = r.resp
    /\ UNCHANGED concvars

getAlbums == Serve(List(albums), Request("getAlbums", "", Malformed))

getAlbumByID == \E id \in PathIds :
    Serve(GetByID(albums, id), Request("getAlbumByID", id, Malformed))

postAlbums == \E p \in Payloads :
    Serve(Create(albums, p), Request("postAlbums", "", p))

updateAlbum == \E id \in PathIds, p \in Payloads :
    Serve(PartialUpdate(albums, id, p), Request("updateAlbum", id, p))

overwriteAlbum == \E id \in PathIds, p \in Payloads :
    Serve(Replace(albums, id, p), Request("overwriteAlbum", id, p))

deleteAlbum == \E id \in PathIds :
    Serve(Delete(albums, id), Request("deleteAlbum", id, Malformed))

\* ------------------------- SpecConc: handlers racing on the shared slice
\* gin serves each request on its own goroutine; nothing in the handlers
\* synchronises their accesses to `albums`.  One step is one load of the
\* slice header, one element read or write, one memmove, or one header
\* store.

Procs == 1 .. NProcs

NilHdr == [arr |-> 0, len |-> 0, cap |-> 0]

InitLoc == [rq |-> NoRequest, body |-> ZeroAlbum, snap |-> NilHdr, i |-> 0,
            h |-> NilHdr, resp |-> NoResponse]

\* the runtime panic of an index or slice bound check, answered by
\* gin.Default()'s recovery and not by the handler
Panicked == [status |-> 0, body |-> [NoBody EXCEPT !.kind = "panic"]]

\* the elements a slice header denotes
Elems(hp, h) == SubSeq(hp[h.arr], 1, h.len)

\* the registry as a sequential reader sees it
Albums == Elems(heap, hdr)

\* capacity append gives a full slice of capacity c
GrowCap(c) == 2 * c

Goto(p, l) == pc' = [pc EXCEPT ![p] = l]

Finish(p, r) ==
    /\ pc' = [pc EXCEPT ![p] = "done"]
    /\ loc' = [loc EXCEPT ![p].resp = r]

\* the handler is entered: c.Param, c.BindJSON
Start(p) ==
    /\ pc[p] = "idle"
    /\ \E op \in {"getAlbums", "getAlbumByID", "postAlbums", "updateAlbum",
                  "overwriteAlbum", "deleteAlbum"},
          id \in PathIds, pl \in Payloads :
          LET hasId == op \notin {"getAlbums", "postAlbums"}
              hasBody == op \in {"postAlbums", "updateAlbum", "overwriteAlbum"}
          IN  /\ hasId \/ id = "1"
              /\ hasBody \/ pl = Malformed
              /\ loc' = [loc EXCEPT ![p].rq =
                             Request(op, IF hasId THEN id ELSE "", pl),
                                    ![p].body = BindJSON(pl)]
              /\ pc' = [pc EXCEPT ![p] =
                             IF hasBody /\ BindFails(pl) THEN "done"
                             ELSE IF op = "getAlbums" THEN "list_load"
                             ELSE IF op = "postAlbums" THEN "append_load"
                             ELSE "range"]
    /\ UNCHANGED <<hdr, heap, seqvars>>

\* c.IndentedJSON(http.StatusOK, albums): the header is loaded ...
ListLoad(p) ==
    /\ pc[p] = "list_load"
    /\ loc' = [loc EXCEPT ![p].snap = hdr]
    /\ Goto(p, "list_encode")
    /\ UNCHANGED <<hdr, heap, seqvars>>

\* ... and the elements are encoded
ListEncode(p) ==
    /\ pc[p] = "list_encode"
    /\ Finish(p, ListJSON(StatusOK, Elems(heap, loc[p].snap)))
    /\ UNCHANGED <<hdr, heap, seqvars>>

\* for i, a := range albums: the range expression is evaluated once
Range(p) ==
    /\ pc[p] = "range"
    /\ loc' = [loc EXCEPT ![p].snap = hdr, ![p].i = 1]
    /\ Goto(p, "iter")
    /\ UNCHANGED <<hdr, heap, seqvars>>

\* one iteration: a := snap[i]; if a.ID == id { ... }
Iter(p) ==
    /\ pc[p] = "iter"
    /\ LET l == loc[p]
       IN  IF l.i > l.snap.len
           THEN Finish(p, NotFound)
           ELSE LET a == heap[l.snap.arr][l.i]
                IN  IF a.ID = l.rq.id
                    THEN IF l.rq.op = "getAlbumByID"
                         THEN Finish(p, AlbumJSON(StatusOK, a))
                         ELSE /\ Goto(p, CASE l.rq.op = "updateAlbum" -> "w_title"
                                           [] l.rq.op = "overwriteAlbum" -> "w_all"
                                           [] l.rq.op = "deleteAlbum" -> "d_slice")
                              /\ UNCHANGED loc
                    ELSE /\ loc' = [loc EXCEPT ![p].i = l.i + 1]
                         /\ UNCHANGED pc
    /\ UNCHANGED <<hdr, heap, seqvars>>

\* the element a with the fields named in fs taken from the handler's body
Stored(a, b, fs) ==
    [ID     |-> IF "ID" \in fs THEN b.ID ELSE a.ID,
     Title  |-> IF "Title" \in fs THEN b.Title ELSE a.Title,
     Artist |-> IF "Artist" \in fs THEN b.Artist ELSE a.Artist,
     Price  |-> IF "Price" \in fs THEN b.Price ELSE a.Price]

\* if !skip { albums[i].F = v }: the header is loaded, the index checked,
\* the fields stored; then the handler goes on at `next`, or returns r
WriteField(p, at, skip, fs, next, r) ==
    /\ pc[p] = at
    /\ IF ~skip /\ loc[p].i > hdr.len
       THEN /\ Finish(p, Panicked)
            /\ UNCHANGED heap
       ELSE /\ heap' = IF skip THEN heap
                       ELSE [heap EXCEPT ![hdr.arr][loc[p].i] = Stored(@, loc[p].body, fs)]
            /\ IF next = "done"
               THEN Finish(p, r)
               ELSE Goto(p, next) /\ UNCHANGED loc
    /\ UNCHANGED <<hdr, seqvars>>

WriteTitle(p) ==
    WriteField(p, "w_title", loc[p].body.Title = "", {"Title"}, "w_artist", NoResponse)

WriteArtist(p) ==
    WriteField(p, "w_artist", loc[p].body.Artist = "", {"Artist"}, "w_price", NoResponse)

WritePrice(p) ==
    WriteField(p, "w_price", loc[p].body.Price = 0, {"Price"}, "done",
               AlbumJSON(StatusOK, loc[p].body))

\* albums[i] = updatedAlbum
WriteAll(p) ==
    WriteField(p, "w_all", FALSE, {"ID", "Title", "Artist", "Price"}, "done",
               AlbumJSON(StatusOK, loc[p].body))

\* albums[:i], albums[i+1:]: the header is loaded and the bounds checked
DeleteSlice(p) ==
    /\ pc[p] = "d_slice"
    /\ IF loc[p].i > hdr.len
       THEN Finish(p, Panicked)
       ELSE /\ loc' = [loc EXCEPT ![p].h = hdr]
            /\ Goto(p, "d_move")
    /\ UNCHANGED <<hdr, heap, seqvars>>

\* append(albums[:i], albums[i+1:]...): the tail is moved down in place
DeleteMove(p) ==
    /\ pc[p] = "d_move"
    /\ LET h == loc[p].h
           arr == heap[h.arr]
       IN  heap' = [heap EXCEPT ![h.arr] =
                       [j \in 1 .. h.cap |->
                           IF j >= loc[p].i /\ j < h.len THEN arr[j + 1] ELSE arr[j]]]
    /\ Goto(p, "d_store")
    /\ UNCHANGED <<hdr, loc, seqvars>>

\* albums = ...; c.IndentedJSON(http.StatusOK, "album deleted")
DeleteStore(p) ==
    /\ pc[p] = "d_store"
    /\ hdr' = [loc[p].h EXCEPT !.len = @ - 1]
    /\ Finish(p, Deleted)
    /\ UNCHANGED <<heap, seqvars>>

\* append(albums, newAlbum): the header is loaded
AppendLoad(p) ==
    /\ pc[p] = "append_load"
    /\ loc' = [loc EXCEPT ![p].h = hdr]
    /\ Goto(p, "append_grow")
    /\ UNCHANGED <<hdr, heap, seqvars>>

\* the element is stored behind the last one, in place when the capacity
\* allows and in a fresh array holding a copy otherwise
AppendGrow(p) ==
    /\ pc[p] = "append_grow"
    /\ LET h == loc[p].h
       IN  IF h.len < h.cap
           THEN /\ heap' = [heap EXCEPT ![h.arr][h.len + 1] = loc[p].body]
                /\ loc' = [loc EXCEPT ![p].h = [h EXCEPT !.len = h.len + 1]]
           ELSE /\ heap' = Append(heap,
                       [j \in 1 .. GrowCap(h.cap) |->
                           IF j <= h.len THEN heap[h.arr][j]
                           ELSE IF j = h.len + 1 THEN loc[p].body
                           ELSE ZeroAlbum])
                /\ loc' = [loc EXCEPT ![p].h =
                              [arr |-> Len(heap) + 1, len |-> h.len + 1,
                               cap |-> GrowCap(h.cap)]]
    /\ Goto(p, "append_store")
    /\ UNCHANGED <<hdr, seqvars>>

\* albums = ...; c.IndentedJSON(http.StatusCreated, newAlbum)
AppendStore(p) ==
    /\ pc[p] = "append_store"
    /\ hdr' = loc[p].h
    /\ Finish(p, AlbumJSON(StatusCreated, loc[p].body))
    /\ UNCHANGED <<heap, seqvars>>

\* --------------------------------------------------------- specifications

Init ==
    /\ albums = Seed
    /\ req = NoRequest
    /\ resp = NoResponse
    /\ nreq = 0
    /\ heap = << Seed >>
    /\ hdr = [arr |-> 1, len |-> Len(Seed), cap |-> Len(Seed)]
    /\ pc = [p \in Procs |-> "idle"]
    /\ loc = [p \in Procs |-> InitLoc]

Next ==
    \/ getAlbums
    \/ getAlbumByID
    \/ postAlbums
    \/ updateAlbum
    \/ overwriteAlbum
    \/ deleteAlbum

Spec == Init /\ [][Next]_vars

NextConc ==
    \E p \in Procs :
        \/ Start(p)
        \/ ListLoad(p)
        \/ ListEncode(p)
        \/ Range(p)
        \/ Iter(p)
        \/ WriteTitle(p)
        \/ WriteArtist(p)
        \/ WritePrice(p)
        \/ WriteAll(p)
        \/ DeleteSlice(p)
        \/ DeleteMove(p)
        \/ DeleteStore(p)
        \/ AppendLoad(p)
        \/ AppendGrow(p)
        \/ AppendStore(p)

SpecConc == Init /\ [][NextConc]_vars

\* ------------------------------------------------- properties under Spec

\* the positions of s holding a record whose id is id, and the lowest one
Positions(s, id) == {i \in 1 .. Len(s) : s[i].ID = id}
Lowest(S) == CHOOSE i \in S : \A j \in S : i <= j

\* the decoded body of the request just served
Sent(q) == [ID     |-> IF "id" \in q.payload.keys THEN q.payload.id ELSE "",
            Title  |-> IF "title" \in q.payload.keys THEN q.payload.title ELSE "",
            Artist |-> IF "artist" \in q.payload.keys THEN q.payload.artist ELSE "",
            Price  |-> IF "price" \in q.payload.keys THEN q.payload.price ELSE 0]

\* C1: GetByID(id) answers 200 with the record at the lowest position whose
\* id equals the path id, answers 404 "album not found" exactly when no
\* stored record has that id, and leaves the registry as it was.
C1_GetByIDFirstMatch ==
    [][ req'.op = "getAlbumByID" =>
          LET M == Positions(albums, req'.id)
          IN  /\ albums' = albums
              /\ (M = {}) <=> (resp' = NotFound)
              /\ M # {} => /\ resp'.status = StatusOK
                           /\ resp'.body.kind = "album"
                           /\ resp'.body.album = albums[Lowest(M)] ]_vars

\* a lookup answered 200 while two stored records carry the id asked for
C1_Witness ==
    /\ req.op = "getAlbumByID"
    /\ resp.status = StatusOK
    /\ Cardinality(Positions(albums, req.id)) >= 2
    /\ resp.body.album = albums[Lowest(Positions(albums, req.id))]
    /\ resp.body.album # albums[Len(albums)]

\* C2 as stated: in every state, Create(r) immediately followed by
\* GetByID(r.id) returns a record equal to r.
C2_CreateThenGetReturnsSubmitted ==
    [][ ( /\ req.op = "postAlbums"
          /\ resp.status = StatusCreated
          /\ req'.op = "getAlbumByID"
          /\ req'.id = Sent(req).ID )
        => resp' = AlbumJSON(StatusOK, Sent(req)) ]_vars

\* C2 amended: Create(r) immediately followed by GetByID(r.id) returns a
\* record equal to r provided no record stored before the Create had the id
\* r.id; when one had, it is the earliest such record that is returned.
C2_CreateThenGetFresh ==
    [][ ( /\ req.op = "postAlbums"
          /\ resp.status = StatusCreated
          /\ req'.op = "getAlbumByID"
          /\ req'.id = Sent(req).ID )
        => LET before == SubSeq(albums, 1, Len(albums) - 1)
               M == Positions(before, Sent(req).ID)
           IN  /\ albums[Len(albums)] = Sent(req)
               /\ M = {} => resp' = AlbumJSON(StatusOK, Sent(req))
               /\ M # {} => resp' = AlbumJSON(StatusOK, before[Lowest(M)]) ]_vars

\* the second request looked up id "4" right after the first request
\* created it on the seeded registry
C2_Witness ==
    /\ nreq = 2
    /\ req.op = "getAlbumByID"
    /\ req.id = "4"
    /\ Len(albums) = Len(Seed) + 1
    /\ albums[Len(albums)].ID = "4"
    /\ resp = AlbumJSON(StatusOK, albums[Len(albums)])

\* C3: Create(r) with a well-formed body answers 201 echoing r, and the new
\* sequence is the old one with r appended: one longer, every earlier record
\* unchanged, whether or not r.id was already stored.
C3_CreateAppends ==
    [][ (req'.op = "postAlbums" /\ req'.payload.ok) =>
          /\ resp' = AlbumJSON(StatusCreated, Sent(req'))
          /\ Len(albums') = Len(albums) + 1
          /\ \A i \in 1 .. Len(albums) : albums'[i] = albums[i]
          /\ albums'[Len(albums')] = Sent(req') ]_vars

\* a Create has just left two records with id "1" in the registry
C3_Witness ==
    /\ req.op = "postAlbums"
    /\ resp.status = StatusCreated
    /\ Sent(req).ID = "1"
    /\ Cardinality(Positions(albums, "1")) = 2

\* C4: Delete(id) with id stored removes exactly the first record with that
\* id: the count drops by one, the records before it and after it are kept
\* unchanged and in order, and the answer is 200 "album deleted".
C4_DeleteRemovesFirstMatch ==
    [][ (req'.op = "deleteAlbum" /\ Positions(albums, req'.id) # {}) =>
          LET k == Lowest(Positions(albums, req'.id))
          IN  /\ resp' = Deleted
              /\ Len(albums') = Len(albums) - 1
              /\ \A j \in 1 .. Len(albums') :
                    albums'[j] = IF j < k THEN albums[j] ELSE albums[j + 1] ]_vars

\* a Delete succeeded and another record with the same id is still stored
C4_Witness ==
    /\ req.op = "deleteAlbum"
    /\ resp = Deleted
    /\ Positions(albums, req.id) # {}

\* C5: the registry fails in one way only.  Replace, PartialUpdate and
\* Delete answer 404 "album not found" exactly when no stored record has the
\* id (the body, where there is one, having been decoded), and then the
\* sequence is left as it was; every answer is 200, 201, 404 or none.
C5_NotFoundNoEffect ==
    [][ /\ (req'.op \in {"updateAlbum", "overwriteAlbum", "deleteAlbum"}
             /\ (req'.op = "deleteAlbum" \/ req'.payload.ok))
            => /\ (resp' = NotFound) <=> (Positions(albums, req'.id) = {})
               /\ resp' = NotFound => albums' = albums
               /\ resp'.status = StatusNotFound => resp' = NotFound
        /\ resp'.status \in {0, StatusOK, StatusCreated, StatusNotFound}
        /\ resp'.status = 0 => ~req'.payload.ok ]_vars

\* a Replace with a well-formed body found no record and changed nothing
C5_Witness ==
    /\ req.op = "overwriteAlbum"
    /\ req.payload.ok
    /\ resp = NotFound
    /\ Positions(albums, req.id) = {}
    /\ Positions(albums, Sent(req).ID) = {}

\* C6: PartialUpdate(id, body) with id stored changes only the first record
\* with that id; there title, artist and price are each overwritten exactly
\* when the body's field is non-empty / non-zero, the id is kept; length and
\* all other records are unchanged; the 200 answer echoes the body.
C6_PartialUpdateFrame ==
    [][ ( /\ req'.op = "updateAlbum"
          /\ req'.payload.ok
          /\ Positions(albums, req'.id) # {} )
        => LET k == Lowest(Positions(albums, req'.id))
               b == Sent(req')
           IN  /\ resp' = AlbumJSON(StatusOK, b)
               /\ Len(albums') = Len(albums)
               /\ \A j \in 1 .. Len(albums) : j # k => albums'[j] = albums[j]
               /\ albums'[k].ID = albums[k].ID
               /\ albums'[k].Title = IF b.Title # "" THEN b.Title ELSE albums[k].Title
               /\ albums'[k].Artist = IF b.Artist # "" THEN b.Artist ELSE albums[k].Artist
               /\ albums'[k].Price = IF b.Price # 0 THEN b.Price ELSE albums[k].Price ]_vars

\* a PATCH whose body carried "price": 0, a title and another id was
\* answered 200: the stored title is the body's, the stored price is not 0,
\* the stored id is the path id, and the answer is not the stored record
C6_Witness ==
    /\ req.op = "updateAlbum"
    /\ "price" \in req.payload.keys
    /\ req.payload.price = 0
    /\ resp.status = StatusOK
    /\ Sent(req).ID # req.id
    /\ \E i \in Positions(albums, req.id) :
          /\ albums[i].Title = Sent(req).Title
          /\ albums[i].Price # 0
          /\ resp.body.album # albums[i]

\* C7: Replace(id, body) with id stored overwrites the whole record at the
\* position of the first record with that id by the body, the body's id
\* included; length, position and all other records are unchanged.
C7_ReplaceOverwrites ==
    [][ ( /\ req'.op = "overwriteAlbum"
          /\ req'.payload.ok
          /\ Positions(albums, req'.id) # {} )
        => LET k == Lowest(Positions(albums, req'.id))
           IN  /\ resp' = AlbumJSON(StatusOK, Sent(req'))
               /\ Len(albums') = Len(albums)
               /\ \A j \in 1 .. Len(albums) :
                     albums'[j] = IF j = k THEN Sent(req') ELSE albums[j] ]_vars

\* a PUT was answered 200 with a body whose id differs from the path id:
\* no record has the path id any more and two records share the body's id
C7_Witness ==
    /\ req.op = "overwriteAlbum"
    /\ resp.status = StatusOK
    /\ Sent(req).ID # req.id
    /\ Positions(albums, req.id) = {}
    /\ Cardinality(Positions(albums, Sent(req).ID)) = 2

\* C9: a body that cannot be decoded makes Create, Replace and
\* PartialUpdate return before the registry is touched: the sequence is
\* unchanged and the handler writes no response, whatever the path id.
C9_BadBodyAborts ==
    [][ ( /\ req'.op \in {"postAlbums", "updateAlbum", "overwriteAlbum"}
          /\ ~req'.payload.ok )
        => /\ albums' = albums
           /\ resp' = NoResponse ]_vars

\* a PUT with an undecodable body on a stored id was left unanswered
C9_Witness ==
    /\ req.op = "overwriteAlbum"
    /\ ~req.payload.ok
    /\ Positions(albums, req.id) # {}
    /\ resp = NoResponse

\* --------------------------------------------- properties under SpecConc

AllDone == \A p \in Procs : pc[p] = "done"

\* the handler of request q, run alone on the sequence s
Sequential(s, q) ==
    CASE q.op = "getAlbums" -> List(s)
      [] q.op = "getAlbumByID" -> GetByID(s, q.id)
      [] q.op = "postAlbums" -> Create(s, q.payload)
      [] q.op = "updateAlbum" -> PartialUpdate(s, q.id, q.payload)
      [] q.op = "overwriteAlbum" -> Replace(s, q.id, q.payload)
      [] q.op = "deleteAlbum" -> Delete(s, q.id)

\* the orders in which the requests of the handlers can be run one at a time
Orders == {o \in [1 .. NProcs -> Procs] : \A a, b \in 1 .. NProcs : o[a] = o[b] => a = b}

\* running the requests from position k on in order o, starting from s,
\* gives each handler the response it wrote and ends in the registry reached
RECURSIVE Explains(_, _, _)
Explains(s, o, k) ==
    IF k > NProcs THEN s = Albums
    ELSE LET r == Sequential(s, loc[o[k]].rq)
         IN  r.resp = loc[o[k]].resp /\ Explains(r.albums, o, k + 1)

\* C8: each operation is one atomic step: when concurrent handlers have all
\* returned, the registry and every response are those of running the same
\* requests one at a time in some order.
C8_Linearizable == AllDone => \E o \in Orders : Explains(Seed, o, 1)

\* C10: while a PartialUpdate or Replace stands between its scan match and
\* a write albums[i]..., and the other handlers are Deletes and Creates,
\* index i is within the current slice and still holds a record whose id is
\* the path id.
C10_WriteTargetsMatch ==
    \A p \in Procs :
        ( /\ pc[p] \in {"w_title", "w_artist", "w_price", "w_all"}
          /\ \A q \in Procs \ {p} : loc[q].rq.op \in {"none", "deleteAlbum", "postAlbums"} )
        => /\ loc[p].i <= hdr.len
           /\ heap[hdr.arr][loc[p].i].ID = loc[p].rq.id

====
